---- MODULE Spec2Model ----
(***************************************************************************)
(* A model of ssandbox-rs: the Container supervisor (src/src/container/    *)
(* mod.rs), the child it clones, the deadline watcher thread it spawns,    *)
(* and the kernel objects they share (the child process, the two control   *)
(* pipes, the cgroup and the workspace directory).                         *)
(*                                                                         *)
(* The supervisor's methods are translated from container/mod.rs.  The     *)
(* child entry (container/entry.rs), idmap and resource modules are not    *)
(* part of the source tree at hand; they are modelled from sections 4.3,   *)
(* 4.4 and 4.5 of the specification.                                       *)
(***************************************************************************)
EXTENDS Integers, Sequences, FiniteSets, TLC

\* ------------------------------------------------------------------ bounds

\* Container handles that exist over a run: the original and its copies.
MaxHandles == 2
\* config.fs holds 0..MaxFs mount steps.
MaxFs == 2
\* config.security_policies holds 0..MaxPol policies.
MaxPol == 1
\* config.time_limit, in ticks of the model's clock: 0..MaxTimeLimit.
MaxTimeLimit == 1
\* The payload of a report frame is 0..MaxPayload bytes long.
MaxPayload == 3
\* The kernel delivers a pipe write of more than PipeBuf bytes in pieces
\* (PIPE_BUF, scaled down with MaxPayload).
PipeBuf == 2
\* Cap of the per-handle clone counter.
MaxClones == 2
\* Cap of the watcher-thread counter.
MaxWatchers == 2

\* std::mem::size_of::<usize>()
SizeOfUsize == 8

\* --------------------------------------------------------------- constants

Handles == 1..MaxHandles
None == "None"
ChildPid == "Pid"
AllFds == {"ready_r", "ready_w", "report_r", "report_w"}
NoErr == [code |-> 0, payload |-> <<>>]

Min(a, b) == IF a < b THEN a ELSE b

VARIABLES
  cfg,          \* Config: [nfs, npol, time_limit]; immutable
  handles,      \* Container handles: [state, container_pid, already_ended]
  pc,           \* main thread: "idle" between calls, or a position in a call
  cur,          \* the handle of the call in progress (0 when idle)
  op,           \* the method in progress ("none" when idle)
  st,           \* locals of the latest start(): [status, nread, len]
  parentFds,    \* control-pipe ends of the latest start() open in the parent
  proc,         \* the child process: "none", "alive", "zombie", "reaped"
  cpc,          \* the child's position in its entry protocol
  clog,         \* the bring-up steps the child has completed, in order
  csend,        \* the error frame the child reports: [code, payload, sent]
  childFds,     \* control-pipe ends open in the child
  wstatus,      \* how the child ended: "none", "exited" (on its own),
                \* "signaled" (by a SIGKILL)
  report,       \* bytes in the report pipe, not yet read
  idmapDone,    \* uid_map/gid_map of the child are written
  cgroup,       \* the cgroup named by config.uid exists
  attached,     \* the child PID has been migrated into the cgroup
  workdir,      \* <working_path>/<uid>/ exists
  deleted,      \* cgroup_limits.delete(uid) has run
  wpc,          \* the watcher thread: "none", "sleep", "probe", "kill", "done"
  elapsed,      \* ticks the watcher has slept
  nclones,      \* children cloned through each handle
  nwatchers,    \* watcher threads spawned
  strayKill,    \* a SIGKILL went to a PID that was no longer the child's
  handshake,    \* what a successful start() read as the status: "none" while
                \* no start() has succeeded, "byte" (the zero byte), "eof"
  lastRet       \* the latest completed call: [seq, op, h, res, at, err],
                \* and startAt: where the latest start() that got past its
                \* state check ended

vars == <<cfg, handles, pc, cur, op, st, parentFds, proc, cpc, clog, csend,
          childFds, wstatus, report, idmapDone, cgroup, attached, workdir,
          deleted, wpc, elapsed, nclones, nwatchers, strayKill, handshake,
          lastRet>>

mainVars == <<pc, cur, op, st>>
childVars == <<proc, cpc, clog, csend, childFds, wstatus>>
kernelVars == <<idmapDone, cgroup, attached, workdir, deleted>>
watcherVars == <<wpc, elapsed>>
countVars == <<nclones, nwatchers, strayKill, handshake>>

\* ------------------------------------------------------------ the handle

\* has_started
HasStarted(c) == c.container_pid # None

\* has_ened
HasEnded(c) == c.already_ended

\* Container::from(Config) / Container::new
NewContainer == [state |-> "live", container_pid |-> None, already_ended |-> FALSE]

FreeSlot == [state |-> "free", container_pid |-> None, already_ended |-> FALSE]

NoLocals == [status |-> 0, nread |-> 0, len |-> 0]

\* The record of a completed call. seq flips at every completion.
Ret(o, h, r, a, e) ==
  [seq |-> 1 - lastRet.seq, op |-> o, h |-> h, res |-> r, at |-> a, err |-> e,
   startAt |-> IF o = "start" /\ a # "check" THEN a ELSE lastRet.startAt]

\* The main thread returns to its caller; start()'s locals are gone.
Return(o, h, r, a, e) ==
  /\ lastRet' = Ret(o, h, r, a, e)
  /\ pc' = "idle"
  /\ cur' = 0
  /\ op' = "none"
  /\ st' = NoLocals

\* ------------------------------------------------------------ the kernel

NoFrame == [code |-> 0, payload |-> <<>>, sent |-> 0]

\* The child leaves through _exit, or is killed: its memory is gone, the
\* kernel closes its descriptors and keeps it as a zombie until it is waited
\* for.
ChildDies ==
  /\ proc' = "zombie"
  /\ childFds' = {}
  /\ cpc' = "dead"
  /\ clog' = <<>>
  /\ csend' = NoFrame

\* The child ends on its own: _exit, or the end of the target it runs.
ChildExits ==
  /\ ChildDies
  /\ wstatus' = "exited"

\* kill(pid, SIGKILL) on the child: a live child dies at once; a zombie stays
\* a zombie.
SigKill ==
  IF proc = "alive" THEN ChildDies /\ wstatus' = "signaled"
                    ELSE UNCHANGED childVars

\* read(2) on the report pipe returns at once when it holds bytes, and returns
\* 0 (EOF) when no write end is open; it blocks otherwise.
ReportEOF == "report_w" \notin (parentFds \cup childFds)

ReadReady == Len(report) > 0 \/ ReportEOF

\* The bytes one read(fd, buf) with a buffer of n bytes returns.
ReadCount(n) == Min(n, Len(report))

\* The ready gate: the child's read returns EOF once no write end is open.
GateOpen == "ready_w" \notin (parentFds \cup childFds)

\* usize::to_ne_bytes, least significant byte first.
RECURSIVE NeByte(_, _)
NeByte(n, i) == IF i = 1 THEN n % 256 ELSE NeByte(n \div 256, i - 1)

ToNeBytes(n) == [i \in 1..SizeOfUsize |-> NeByte(n, i)]

\* usize::from_ne_bytes
RECURSIVE FromNeBytesFrom(_, _)
FromNeBytesFrom(b, i) ==
  IF i > Len(b) THEN 0 ELSE b[i] + 256 * FromNeBytesFrom(b, i + 1)

FromNeBytes(b) == FromNeBytesFrom(b, 1)

\* A buffer of n zero bytes whose first bytes a read overwrote with data.
Filled(n, data) == [i \in 1..n |-> IF i <= Len(data) THEN data[i] ELSE 0]

\* ------------------------------------------------- idmap, resource (spec)

\* idmap::map_to_root(pid): section 4.4.
MapToRootOutcomes == {"ok", "fail"}

\* CGroupLimitPolicy::apply(uid, pid): section 4.3. A failure may come before
\* or after the cgroup directory is created.
CGroupApplyOutcomes == {"ok", "fail_before_create", "fail_after_create"}

\* ------------------------------------------------------- Container::start

\* A start() that looks at already_ended alone.
StartRefusesEndedOnly(c) == HasEnded(c)

\* start(), line 106: the condition under which start() refuses to run.
StartRefuses(c) == HasStarted(c) \/ HasEnded(c)

\* start(), lines 103-136: the state check, the pipes and the clone.
StartBegin(h) ==
  /\ pc = "idle"
  /\ handles[h].state = "live"
  /\ \/ /\ StartRefuses(handles[h])
        /\ Return("start", h, "AlreadyStarted", "check", NoErr)
        /\ UNCHANGED <<handles, parentFds, childVars, report, nclones>>
     \/ /\ ~StartRefuses(handles[h])
        /\ \E out \in {"pipe1", "pipe2", "clone"} :
             /\ parentFds' = CASE out = "pipe1" -> {}
                               [] out = "pipe2" -> {"ready_r", "ready_w"}
                               [] out = "clone" -> AllFds
             /\ Return("start", h,
                       IF out = "clone" THEN "ForkFailed" ELSE "PipeFailed",
                       out, NoErr)
        /\ UNCHANGED <<handles, childVars, report, nclones>>
     \/ /\ ~StartRefuses(handles[h])
        /\ nclones[h] < MaxClones
        /\ parentFds' = AllFds
        /\ proc' = "alive"
        /\ cpc' = "close"
        /\ clog' = <<>>
        /\ csend' = NoFrame
        /\ childFds' = AllFds
        /\ wstatus' = "none"
        /\ report' = <<>>
        /\ nclones' = [nclones EXCEPT ![h] = @ + 1]
        /\ handles' = [handles EXCEPT ![h].container_pid = ChildPid]
        /\ pc' = "s_close_rr"
        /\ cur' = h
        /\ op' = "start"
        /\ st' = NoLocals
        /\ UNCHANGED lastRet
  /\ UNCHANGED <<cfg, kernelVars, watcherVars, nwatchers, strayKill,
                 handshake>>

\* start(), line 138: close(ready_pipe_read)?. close(2) releases the
\* descriptor also when it reports an error.
StartCloseReadyRead ==
  /\ pc = "s_close_rr"
  /\ parentFds' = parentFds \ {"ready_r"}
  /\ \/ /\ pc' = "s_close_rw"
        /\ UNCHANGED <<cur, op, st, lastRet>>
     \/ Return("start", cur, "PipeFailed", "close_rr", NoErr)
  /\ UNCHANGED <<cfg, handles, childVars, report, kernelVars, watcherVars,
                 countVars>>

\* A start() that closes ready_pipe_write along with report_pipe_write,
\* ahead of the ID mapping and the cgroup.
StartCloseReportWriteAndGate ==
  /\ pc = "s_close_rw"
  /\ parentFds' = parentFds \ {"report_w", "ready_w"}
  /\ \/ /\ pc' = "s_idmap"
        /\ UNCHANGED <<cur, op, st, lastRet>>
     \/ Return("start", cur, "PipeFailed", "close_rw", NoErr)
  /\ UNCHANGED <<cfg, handles, childVars, report, kernelVars, watcherVars,
                 countVars>>

\* start(), line 139: close(report_pipe_write)?
StartCloseReportWrite ==
  /\ pc = "s_close_rw"
  /\ parentFds' = parentFds \ {"report_w"}
  /\ \/ /\ pc' = "s_idmap"
        /\ UNCHANGED <<cur, op, st, lastRet>>
     \/ Return("start", cur, "PipeFailed", "close_rw", NoErr)
  /\ UNCHANGED <<cfg, handles, childVars, report, kernelVars, watcherVars,
                 countVars>>

\* start(), lines 141-151, first half: idmap::map_to_root(pid)?, and on its
\* failure kill(pid, SIGKILL) and return the error.
StartIdMap ==
  /\ pc = "s_idmap"
  /\ \E out \in MapToRootOutcomes :
       \/ /\ out = "ok"
          /\ idmapDone' = TRUE
          /\ pc' = "s_cgroup"
          /\ UNCHANGED <<cur, op, st, lastRet, childVars>>
       \/ /\ out = "fail"
          /\ SigKill
          /\ Return("start", cur, "IdMapFailed", "idmap", NoErr)
          /\ UNCHANGED idmapDone
  /\ UNCHANGED <<cfg, handles, parentFds, report, cgroup, attached, workdir,
                 deleted, watcherVars, countVars>>

\* start(), lines 141-151, second half: cgroup_limits.apply(uid, pid)?, and on
\* its failure kill(pid, SIGKILL) and return the error.
StartCGroupApply ==
  /\ pc = "s_cgroup"
  /\ \E out \in CGroupApplyOutcomes :
       \/ /\ out = "ok"
          /\ cgroup' = TRUE
          /\ attached' = TRUE
          /\ pc' = "s_gate"
          /\ UNCHANGED <<cur, op, st, lastRet, childVars>>
       \/ /\ out # "ok"
          /\ cgroup' = (cgroup \/ out = "fail_after_create")
          /\ SigKill
          /\ Return("start", cur, "CGroupFailed", "cgroup", NoErr)
          /\ UNCHANGED attached
  /\ UNCHANGED <<cfg, handles, parentFds, report, idmapDone, workdir,
                 deleted, watcherVars, countVars>>

\* start(), line 156: close(ready_pipe_write)? releases the child's gate.
StartReleaseGate ==
  /\ pc = "s_gate"
  /\ parentFds' = parentFds \ {"ready_w"}
  /\ \/ /\ pc' = "s_read_status"
        /\ UNCHANGED <<cur, op, st, lastRet>>
     \/ Return("start", cur, "PipeFailed", "close_gate", NoErr)
  /\ UNCHANGED <<cfg, handles, childVars, report, kernelVars, watcherVars,
                 countVars>>

\* start(), lines 159-161: one read of one byte into child_status_buf, which
\* starts as [0]; the number of bytes read is not looked at.
StartReadStatus ==
  /\ pc = "s_read_status"
  /\ ReadReady
  /\ LET n == ReadCount(1)
         buf == Filled(1, SubSeq(report, 1, n))
     IN /\ report' = SubSeq(report, n + 1, Len(report))
        /\ st' = [st EXCEPT !.status = buf[1], !.nread = n]
        /\ pc' = IF buf[1] # 0 THEN "s_read_len" ELSE "s_spawn"
  /\ UNCHANGED <<cfg, handles, cur, op, parentFds, childVars, kernelVars,
                 watcherVars, countVars, lastRet>>

\* start(), lines 163-165: one read into a zeroed buffer of size_of::<usize>()
\* bytes, decoded with usize::from_ne_bytes.
StartReadLength ==
  /\ pc = "s_read_len"
  /\ ReadReady
  /\ LET n == ReadCount(SizeOfUsize)
         buf == Filled(SizeOfUsize, SubSeq(report, 1, n))
     IN /\ report' = SubSeq(report, n + 1, Len(report))
        /\ st' = [st EXCEPT !.len = FromNeBytes(buf)]
        /\ pc' = "s_read_payload"
  /\ UNCHANGED <<cfg, handles, cur, op, parentFds, childVars, kernelVars,
                 watcherVars, countVars, lastRet>>

\* start(), lines 167-173: one read into a zeroed buffer of the decoded
\* length, and the EntryError built from the code and the buffer. A read of
\* zero bytes returns at once.
StartReadPayload ==
  /\ pc = "s_read_payload"
  /\ st.len = 0 \/ ReadReady
  /\ LET n == ReadCount(st.len)
         buf == Filled(st.len, SubSeq(report, 1, n))
     IN /\ report' = SubSeq(report, n + 1, Len(report))
        /\ Return("start", cur, "EntryError", "entry",
                  [code |-> st.status, payload |-> buf])
  /\ UNCHANGED <<cfg, handles, parentFds, childVars, kernelVars, watcherVars,
                 countVars>>

\* start(), lines 176-189: spawn the deadline watcher and return Ok.
StartSpawnWatcher ==
  /\ pc = "s_spawn"
  /\ nwatchers < MaxWatchers
  /\ wpc' = "sleep"
  /\ elapsed' = 0
  /\ nwatchers' = nwatchers + 1
  /\ handshake' = IF st.nread = 1 THEN "byte" ELSE "eof"
  /\ Return("start", cur, "Ok", "none", NoErr)
  /\ UNCHANGED <<cfg, handles, parentFds, childVars, report, kernelVars,
                 nclones, strayKill>>

\* ------------------------------------------- the child entry (section 4.5)

Step(k, i) == [k |-> k, i |-> i]

\* An entry protocol that drops to the inner identity after the policies.
ProgramPoliciesFirst(c) ==
  <<Step("hostname", 0), Step("mkroot", 0)>>
  \o [i \in 1..c.nfs |-> Step("loading", i)]
  \o <<Step("pivot", 0)>>
  \o [i \in 1..c.nfs |-> Step("loaded", i)]
  \o <<Step("stdio", 0)>>
  \o [i \in 1..c.npol |-> Step("policy", i)]
  \o <<Step("setgid", 0), Step("setuid", 0)>>

\* An entry protocol that runs the loaded phase of each mount step right after
\* its loading phase, ahead of the pivot.
ProgramMountsInterleaved(c) ==
  <<Step("hostname", 0), Step("mkroot", 0)>>
  \o [j \in 1..(2 * c.nfs) |->
        IF j % 2 = 1 THEN Step("loading", (j + 1) \div 2)
                     ELSE Step("loaded", j \div 2)]
  \o <<Step("pivot", 0)>>
  \o <<Step("stdio", 0), Step("setgid", 0), Step("setuid", 0)>>
  \o [i \in 1..c.npol |-> Step("policy", i)]

\* Steps 3-10 of the entry protocol for a config with nfs mount steps and
\* npol security policies, in the order the child runs them.
Program(c) ==
  <<Step("hostname", 0), Step("mkroot", 0)>>
  \o [i \in 1..c.nfs |-> Step("loading", i)]
  \o <<Step("pivot", 0)>>
  \o [i \in 1..c.nfs |-> Step("loaded", i)]
  \o <<Step("stdio", 0), Step("setgid", 0), Step("setuid", 0)>>
  \o [i \in 1..c.npol |-> Step("policy", i)]

\* The status byte that reports a failure of a step: non-zero, one per
\* sub-phase.
Code(k) ==
  CASE k = "hostname" -> 1
    [] k = "mkroot" -> 2
    [] k = "loading" -> 3
    [] k = "pivot" -> 4
    [] k = "loaded" -> 5
    [] k = "stdio" -> 6
    [] k = "setgid" -> 7
    [] k = "setuid" -> 7
    [] k = "policy" -> 8

\* A payload of n bytes (UTF-8 text holds no zero byte).
Payload(n) == [i \in 1..n |-> 64 + i]

\* Step 1: close the pipe ends the child does not use.
ChildCloseFds ==
  /\ proc = "alive"
  /\ cpc = "close"
  /\ childFds' = childFds \ {"report_r", "ready_w"}
  /\ cpc' = "gate"
  /\ UNCHANGED <<cfg, handles, mainVars, parentFds, proc, clog, csend,
                 wstatus, report, kernelVars, watcherVars, countVars,
                 lastRet>>

\* Step 2: the read on the ready pipe returns EOF.
ChildPassGate ==
  /\ proc = "alive"
  /\ cpc = "gate"
  /\ GateOpen
  /\ cpc' = "steps"
  /\ UNCHANGED <<cfg, handles, mainVars, parentFds, proc, clog, csend,
                 childFds, wstatus, report, kernelVars, watcherVars,
                 countVars, lastRet>>

\* The step the child runs next.
NextStep == Program(cfg)[Len(clog) + 1]

\* Steps 3-10, one at a time: the step succeeds, or it fails and the child
\* goes on to report it (step 12).
ChildStep ==
  /\ proc = "alive"
  /\ cpc = "steps"
  /\ \/ /\ clog' = Append(clog, NextStep)
        /\ workdir' = (workdir \/ NextStep.k = "mkroot")
        /\ cpc' = IF Len(clog) + 1 = Len(Program(cfg)) THEN "report_ok"
                                                       ELSE "steps"
        /\ UNCHANGED csend
     \/ /\ \E n \in 0..MaxPayload :
             csend' = [code |-> Code(NextStep.k), payload |-> Payload(n),
                       sent |-> 0]
        /\ cpc' = "report_status"
        /\ UNCHANGED <<clog, workdir>>
  /\ UNCHANGED <<cfg, handles, mainVars, parentFds, proc, childFds, wstatus,
                 report, idmapDone, cgroup, attached, deleted, watcherVars,
                 countVars, lastRet>>

\* Step 11, first half: write the zero status byte. A failed write is fatal:
\* the child exits at once.
ChildReportOk ==
  /\ proc = "alive"
  /\ cpc = "report_ok"
  /\ \/ /\ report' = Append(report, 0)
        /\ cpc' = "exec"
        /\ UNCHANGED <<proc, childFds, clog, csend, wstatus>>
     \/ /\ ChildExits
        /\ UNCHANGED report
  /\ UNCHANGED <<cfg, handles, mainVars, parentFds, kernelVars, watcherVars,
                 countVars, lastRet>>

\* Step 11, second half: exec the target, which then runs; a failed exec
\* ends the child.
ChildExec ==
  /\ proc = "alive"
  /\ cpc = "exec"
  /\ \/ /\ cpc' = "running"
        /\ UNCHANGED <<proc, childFds, clog, csend, wstatus>>
     \/ ChildExits
  /\ UNCHANGED <<cfg, handles, mainVars, parentFds, report, kernelVars,
                 watcherVars, countVars, lastRet>>

\* Step 12, the status byte of an error frame.
ChildWriteStatus ==
  /\ proc = "alive"
  /\ cpc = "report_status"
  /\ \/ /\ report' = Append(report, csend.code)
        /\ cpc' = "report_len"
        /\ UNCHANGED <<proc, childFds, clog, csend, wstatus>>
     \/ /\ ChildExits
        /\ UNCHANGED report
  /\ UNCHANGED <<cfg, handles, mainVars, parentFds, kernelVars, watcherVars,
                 countVars, lastRet>>

\* Step 12, the native-endian length of the payload, in one write.
ChildWriteLength ==
  /\ proc = "alive"
  /\ cpc = "report_len"
  /\ \/ /\ report' = report \o ToNeBytes(Len(csend.payload))
        /\ cpc' = "report_payload"
        /\ UNCHANGED <<proc, childFds, clog, csend, wstatus>>
     \/ /\ ChildExits
        /\ UNCHANGED report
  /\ UNCHANGED <<cfg, handles, mainVars, parentFds, kernelVars, watcherVars,
                 countVars, lastRet>>

\* Step 12, the payload: the pipe takes up to PipeBuf bytes of it at a time.
\* With all of it written the frame is complete and the child is about to
\* _exit.
ChildWritePayload ==
  /\ proc = "alive"
  /\ cpc = "report_payload"
  /\ \/ /\ LET k == Min(PipeBuf, Len(csend.payload) - csend.sent)
           IN /\ report' = report \o
                   SubSeq(csend.payload, csend.sent + 1, csend.sent + k)
              /\ csend' = [csend EXCEPT !.sent = @ + k]
              /\ cpc' = IF csend.sent + k = Len(csend.payload) THEN "exiting"
                                                               ELSE cpc
        /\ UNCHANGED <<proc, childFds, clog, wstatus>>
     \/ /\ ChildExits
        /\ UNCHANGED report
  /\ UNCHANGED <<cfg, handles, mainVars, parentFds, kernelVars, watcherVars,
                 countVars, lastRet>>

\* The child _exits after its report, or the target it runs ends on its own.
ChildExit ==
  /\ proc = "alive"
  /\ cpc \in {"exiting", "running"}
  /\ ChildExits
  /\ UNCHANGED <<cfg, handles, mainVars, parentFds, report, kernelVars,
                 watcherVars, countVars, lastRet>>

\* ------------------------------------------------- the deadline watcher

\* start(), line 178: the watcher sleeps; one tick of time_limit passes.
WatcherTick ==
  /\ wpc = "sleep"
  /\ elapsed < cfg.time_limit
  /\ elapsed' = elapsed + 1
  /\ UNCHANGED <<cfg, handles, mainVars, parentFds, childVars, report,
                 kernelVars, wpc, countVars, lastRet>>

\* start(), line 178: sleep(time_limit) returns.
WatcherWake ==
  /\ wpc = "sleep"
  /\ elapsed = cfg.time_limit
  /\ wpc' = "probe"
  /\ UNCHANGED <<cfg, handles, mainVars, parentFds, childVars, report,
                 kernelVars, elapsed, countVars, lastRet>>

\* start(), lines 181-186: waitpid(pid, WNOHANG). A live child is StillAlive;
\* a zombie is reaped by this call; a PID that is no child fails (ECHILD).
WatcherProbe ==
  /\ wpc = "probe"
  /\ wpc' = IF proc = "alive" THEN "kill" ELSE "done"
  /\ proc' = IF proc = "zombie" THEN "reaped" ELSE proc
  /\ UNCHANGED <<cfg, handles, mainVars, parentFds, cpc, clog, csend,
                 childFds, wstatus, report, kernelVars, elapsed, countVars,
                 lastRet>>

\* start(), line 183: kill(pid, SIGKILL), its result dropped. Once the child
\* is reaped its PID is free: the signal finds no process, or the process
\* that got the PID since.
WatcherKill ==
  /\ wpc = "kill"
  /\ wpc' = "done"
  /\ SigKill
  /\ \/ /\ proc # "reaped"
        /\ UNCHANGED strayKill
     \/ /\ proc = "reaped"
        /\ \E reused \in BOOLEAN : strayKill' = (strayKill \/ reused)
  /\ UNCHANGED <<cfg, handles, mainVars, parentFds, report, kernelVars,
                 elapsed, nclones, nwatchers, handshake, lastRet>>

\* ------------------------------- Container::wait, terminate, delete, drop

\* CGroupLimitPolicy::delete(uid): section 4.3. Removes the cgroup; a cgroup
\* that is not there is no error.
CGroupDelete ==
  /\ cgroup' = FALSE
  /\ attached' = FALSE
  /\ deleted' = TRUE

\* std::fs::remove_dir_all fails with NotFound on a path that does not exist.
RemoveDirAllResult == IF workdir THEN "Ok" ELSE "Io"

\* The handle after the call o: drop consumes it.
AfterCall(o, c) == IF o = "drop" THEN [c EXCEPT !.state = "dropped"] ELSE c

\* A delete() that removes the workspace directory before the cgroup: when
\* remove_dir_all fails, the ? returns ahead of cgroup_limits.delete.
TerminateDoneDirFirst(o, h, c) ==
  /\ handles' = [handles EXCEPT ![h] = AfterCall(o, c)]
  /\ IF o \in {"delete", "drop"}
       THEN /\ workdir' = FALSE
            /\ IF workdir THEN CGroupDelete
                          ELSE UNCHANGED <<cgroup, attached, deleted>>
            /\ Return(o, h, RemoveDirAllResult,
                      IF workdir THEN "none" ELSE "remove_dir_all", NoErr)
       ELSE /\ UNCHANGED <<cgroup, attached, workdir, deleted>>
            /\ Return(o, h, "Ok", "none", NoErr)

\* wait() has set already_ended, so terminate() and wait() return Ok. For
\* delete() and drop, delete() goes on (lines 215-219): the cgroup is deleted,
\* then the workspace directory is removed.
TerminateDone(o, h, c) ==
  /\ handles' = [handles EXCEPT ![h] = AfterCall(o, c)]
  /\ IF o \in {"delete", "drop"}
       THEN /\ CGroupDelete
            /\ workdir' = FALSE
            /\ Return(o, h, RemoveDirAllResult,
                      IF workdir THEN "none" ELSE "remove_dir_all", NoErr)
       ELSE /\ UNCHANGED <<cgroup, attached, workdir, deleted>>
            /\ Return(o, h, "Ok", "none", NoErr)

\* kill or waitpid failed: wait(), terminate() and delete() pass the error
\* on (the ? of lines 195, 205, 207 and 214); drop discards it.
TerminateFailed(o, h, errno, where) ==
  /\ handles' = [handles EXCEPT ![h] = AfterCall(o, handles[h])]
  /\ UNCHANGED <<cgroup, attached, workdir, deleted>>
  /\ Return(o, h, errno, where, NoErr)

\* The main thread enters waitpid(pid, None) of wait(), line 195.
EnterWaitpid(o, h) ==
  /\ pc' = "waitpid"
  /\ cur' = h
  /\ op' = o
  /\ UNCHANGED <<st, handles, cgroup, attached, workdir, deleted, lastRet>>

\* wait(), lines 192-200, up to the blocking waitpid.
Wait(h) ==
  /\ pc = "idle"
  /\ handles[h].state = "live"
  /\ \/ /\ HasEnded(handles[h])
        /\ TerminateDone("wait", h, handles[h])
     \/ /\ ~HasEnded(handles[h])
        /\ ~HasStarted(handles[h])
        /\ TerminateDone("wait", h, [handles[h] EXCEPT !.already_ended = TRUE])
     \/ /\ ~HasEnded(handles[h])
        /\ HasStarted(handles[h])
        /\ EnterWaitpid("wait", h)
  /\ UNCHANGED <<cfg, parentFds, childVars, report, idmapDone, watcherVars,
                 countVars>>

\* terminate(), lines 202-210, up to the blocking waitpid of its wait(); o is
\* the method that called it: terminate, delete or drop (through delete,
\* line 214). kill on the PID of a reaped child fails with ESRCH, or reaches
\* the process that got the PID since.
TerminateFrom(o, h) ==
  \/ /\ HasEnded(handles[h])
     /\ TerminateDone(o, h, handles[h])
     /\ UNCHANGED <<childVars, strayKill>>
  \/ /\ ~HasEnded(handles[h])
     /\ ~HasStarted(handles[h])
     /\ TerminateDone(o, h, [handles[h] EXCEPT !.already_ended = TRUE])
     /\ UNCHANGED <<childVars, strayKill>>
  \/ /\ ~HasEnded(handles[h])
     /\ HasStarted(handles[h])
     /\ proc # "reaped"
     /\ SigKill
     /\ EnterWaitpid(o, h)
     /\ UNCHANGED strayKill
  \/ /\ ~HasEnded(handles[h])
     /\ HasStarted(handles[h])
     /\ proc = "reaped"
     /\ \/ /\ TerminateFailed(o, h, "ESRCH", "kill")
           /\ UNCHANGED strayKill
        \/ /\ strayKill' = TRUE
           /\ EnterWaitpid(o, h)
     /\ UNCHANGED childVars

\* terminate()
Terminate(h) ==
  /\ pc = "idle"
  /\ handles[h].state = "live"
  /\ TerminateFrom("terminate", h)
  /\ UNCHANGED <<cfg, parentFds, report, idmapDone, watcherVars, nclones,
                 nwatchers, handshake>>

\* delete(), lines 212-220
Delete(h) ==
  /\ pc = "idle"
  /\ handles[h].state = "live"
  /\ TerminateFrom("delete", h)
  /\ UNCHANGED <<cfg, parentFds, report, idmapDone, watcherVars, nclones,
                 nwatchers, handshake>>

\* Drop for Container, lines 231-238: delete() when has_started, its result
\* discarded; the handle is gone either way.
Drop(h) ==
  /\ pc = "idle"
  /\ handles[h].state = "live"
  /\ \/ /\ HasStarted(handles[h])
        /\ TerminateFrom("drop", h)
     \/ /\ ~HasStarted(handles[h])
        /\ handles' = [handles EXCEPT ![h].state = "dropped"]
        /\ Return("drop", h, "Ok", "none", NoErr)
        /\ UNCHANGED <<childVars, strayKill, cgroup, attached, workdir,
                       deleted>>
  /\ UNCHANGED <<cfg, parentFds, report, idmapDone, watcherVars, nclones,
                 nwatchers, handshake>>

\* wait(), lines 195-197: waitpid(pid, None) returns. It blocks while the
\* child lives, reaps a zombie, and fails with ECHILD when the PID is not (or
\* no longer) a child to wait for.
WaitpidReturn ==
  /\ pc = "waitpid"
  /\ \/ /\ proc = "zombie"
        /\ proc' = "reaped"
        /\ TerminateDone(op, cur, [handles[cur] EXCEPT !.already_ended = TRUE])
     \/ /\ proc = "reaped"
        /\ TerminateFailed(op, cur, "ECHILD", "waitpid")
        /\ UNCHANGED proc
  /\ UNCHANGED <<cfg, parentFds, cpc, clog, csend, childFds, wstatus, report,
                 idmapDone, watcherVars, countVars>>

\* #[derive(Clone)] on Container, line 59: a copy of a handle with the same
\* container_pid and already_ended. (A copy of an Unstarted handle is a
\* container of its own and is not followed here.)
Clone(h, g) ==
  /\ pc = "idle"
  /\ handles[h].state = "live"
  /\ StartRefuses(handles[h])
  /\ handles[g].state = "free"
  /\ \A f \in Handles : f < g => handles[f].state # "free"
  /\ handles' = [handles EXCEPT ![g] = handles[h]]
  /\ UNCHANGED <<cfg, mainVars, parentFds, childVars, report, kernelVars,
                 watcherVars, countVars, lastRet>>

\* ---------------------------------------------------------- specification

Configs == [nfs : 0..MaxFs, npol : 0..MaxPol, time_limit : 0..MaxTimeLimit]

Init ==
  /\ cfg \in Configs
  /\ handles = [h \in Handles |-> IF h = 1 THEN NewContainer ELSE FreeSlot]
  /\ pc = "idle"
  /\ cur = 0
  /\ op = "none"
  /\ st = NoLocals
  /\ parentFds = {}
  /\ proc = "none"
  /\ cpc = "none"
  /\ clog = <<>>
  /\ csend = NoFrame
  /\ childFds = {}
  /\ wstatus = "none"
  /\ report = <<>>
  /\ idmapDone = FALSE
  /\ cgroup = FALSE
  /\ attached = FALSE
  /\ workdir = FALSE
  /\ deleted = FALSE
  /\ wpc = "none"
  /\ elapsed = 0
  /\ nclones = [h \in Handles |-> 0]
  /\ nwatchers = 0
  /\ strayKill = FALSE
  /\ handshake = "none"
  /\ lastRet = [seq |-> 0, op |-> "none", h |-> 0, res |-> "none",
                at |-> "none", err |-> NoErr, startAt |-> "never"]

Next ==
  \/ \E h \in Handles : StartBegin(h)
  \/ StartCloseReadyRead
  \/ StartCloseReportWrite
  \/ StartIdMap
  \/ StartCGroupApply
  \/ StartReleaseGate
  \/ StartReadStatus
  \/ StartReadLength
  \/ StartReadPayload
  \/ StartSpawnWatcher
  \/ \E h \in Handles : Wait(h)
  \/ \E h \in Handles : Terminate(h)
  \/ \E h \in Handles : Delete(h)
  \/ \E h \in Handles : Drop(h)
  \/ WaitpidReturn
  \/ ChildCloseFds
  \/ ChildPassGate
  \/ ChildStep
  \/ ChildReportOk
  \/ ChildExec
  \/ ChildWriteStatus
  \/ ChildWriteLength
  \/ ChildWritePayload
  \/ ChildExit
  \/ WatcherTick
  \/ WatcherWake
  \/ WatcherProbe
  \/ WatcherKill

\* One owner: the container is used through the handle it was built as.
Spec == Init /\ [][Next]_vars

\* The handle may also be copied and used through its copies.
NextCopies ==
  \/ Next
  \/ \E h, g \in Handles : Clone(h, g)

SpecCopies == Init /\ [][NextCopies]_vars

\* The deadline watcher thread, lines 177-187.
Watcher == WatcherTick \/ WatcherWake \/ WatcherProbe \/ WatcherKill

\* One owner, under a scheduler that runs the watcher thread and lets a
\* waitpid that can return do so.
FairSpec == Spec /\ WF_vars(Watcher) /\ WF_vars(WaitpidReturn)

\* ------------------------------------------------------------ properties

\* The container has been Running: a start() has returned success.
EverRunning == handshake # "none"

\* Unstarted: no child yet, and not ended.
Unstarted(c) == ~HasStarted(c) /\ ~HasEnded(c)

\* This step is a call of start() on handle h: the call returns in the step,
\* or goes on to its code after the clone.
StartCalledOn(h) ==
  /\ pc = "idle"
  /\ \/ pc' = "s_close_rr" /\ cur' = h
     \/ lastRet' # lastRet /\ lastRet'.op = "start" /\ lastRet'.h = h

\* This step is the return of a call of method o.
Returns(o) == lastRet'.seq # lastRet.seq /\ lastRet'.op = o

\* C1: start() on a handle that is not Unstarted fails with AlreadyStarted and
\* clones nothing, and no handle ever clones more than one child.
C1_StartOnceOnly ==
  /\ [](\A h \in Handles : nclones[h] <= 1)
  /\ [][\A h \in Handles :
          (StartCalledOn(h) /\ ~Unstarted(handles[h])) =>
            /\ lastRet'.seq # lastRet.seq
            /\ lastRet'.res = "AlreadyStarted"
            /\ nclones' = nclones
            /\ proc' = proc]_vars

\* C1 witness: a second start() was refused on a handle that has cloned its
\* child.
C1_Witness ==
  /\ lastRet.op = "start"
  /\ lastRet.res = "AlreadyStarted"
  /\ nclones[lastRet.h] = 1

\* C2: start() returns success only after its read of the status byte
\* returned exactly one byte.
C2_StartOkReadOneStatusByte ==
  [][(Returns("start") /\ lastRet'.res = "Ok") => st.nread = 1]_vars

\* C3: when start() returns an EntryError, the child has been reaped.
C3_EntryErrorChildReaped ==
  (lastRet.op = "start" /\ lastRet.res = "EntryError") => proc = "reaped"

\* C4: when start() fails between the clone and the release of the ready gate
\* (a close of an unused pipe end, the ID mapping, the cgroup apply), the child
\* has been killed by the time start() returns.
C4_FailedStartKillsChild ==
  (lastRet.op = "start"
     /\ lastRet.at \in {"close_rr", "close_rw", "idmap", "cgroup"})
  => proc # "alive"

\* C5: dropping a container that has been Running leaves no cgroup and no
\* workspace directory. (Stated for a start() that succeeded on the child's
\* zero byte, so that it does not rest on what C2 is about.)
C5_DropLeavesNothing ==
  (lastRet.op = "drop" /\ handshake = "byte") => (~cgroup /\ ~workdir)

\* C6: a call of terminate() or delete() that follows a call of the same
\* method on the same handle returns the same result, and changes neither the
\* handle nor the child, the cgroup or the workspace directory.
C6_TerminateDeleteIdempotent ==
  [][\A o \in {"terminate", "delete"} :
       (Returns(o) /\ lastRet.op = o /\ lastRet'.h = lastRet.h) =>
         /\ lastRet'.res = lastRet.res
         /\ pc = "idle" => UNCHANGED <<handles, proc, cgroup, workdir>>]_vars

\* C7: a live child is past the ready gate only when the ID mapping and the
\* cgroup attachment are done, and a start() that failed in either of them
\* has left the ready-write end open.
C7_GateAfterIdMapAndCGroup ==
  /\ (proc = "alive" /\ cpc \notin {"close", "gate"}) =>
       (idmapDone /\ attached)
  /\ (lastRet.op = "start" /\ lastRet.at \in {"idmap", "cgroup"}) =>
       "ready_w" \in parentFds

\* C7 witness: the child runs its post-gate steps, the mapping and the cgroup
\* in place.
C7_Witness ==
  /\ proc = "alive"
  /\ cpc = "steps"
  /\ Len(clog) > 0
  /\ idmapDone
  /\ attached

\* The place of step (k, i) in the child's log; 0 when it has not run.
Pos(k, i) ==
  IF \E j \in 1..Len(clog) : clog[j] = Step(k, i)
    THEN CHOOSE j \in 1..Len(clog) : clog[j] = Step(k, i)
    ELSE 0

\* The child has run every loading, then the pivot, then every loaded, then
\* setgid and setuid, then every policy.
BringUpComplete ==
  /\ \A i \in 1..cfg.nfs : 0 < Pos("loading", i) /\ Pos("loading", i) < Pos("pivot", 0)
  /\ 0 < Pos("pivot", 0)
  /\ \A i \in 1..cfg.nfs : Pos("pivot", 0) < Pos("loaded", i)
  /\ \A i \in 1..cfg.nfs : Pos("loaded", i) < Pos("setgid", 0)
  /\ Pos("pivot", 0) < Pos("setgid", 0)
  /\ Pos("setgid", 0) < Pos("setuid", 0)
  /\ \A i \in 1..cfg.npol : Pos("setuid", 0) < Pos("policy", i)

ReportingFailure == {"report_status", "report_len", "report_payload", "exiting"}

\* C8: the child is at exec or runs the target only with its bring-up
\* complete; a child that reports a failed step reports a non-zero code and
\* goes on only to its exit.
C8_ExecOnlyAfterBringUp ==
  /\ [](cpc \in {"report_ok", "exec", "running"} => BringUpComplete)
  /\ [](cpc \in ReportingFailure => csend.code # 0)
  /\ [][(cpc \in ReportingFailure) =>
          (cpc' \in ReportingFailure \/ cpc' = "dead")]_vars

\* C8 witness: the target runs in a config with mount steps and a policy.
C8_Witness ==
  /\ cpc = "running"
  /\ cfg.nfs > 1
  /\ cfg.npol > 0

\* C9: when the child has written a whole error frame and start() has
\* returned the EntryError, the error holds the code and the payload of the
\* frame.
C9_ReportFrameRoundTrips ==
  (lastRet.op = "start" /\ lastRet.res = "EntryError" /\ cpc = "exiting")
  => lastRet.err = [code |-> csend.code, payload |-> csend.payload]

\* C10: after a successful start(), wait() returns Ok and leaves the
\* container Ended. (Stated for a start() that succeeded on the child's zero
\* byte, so that it does not rest on what C2 is about.)
C10_WaitReturnsCleanly ==
  (lastRet.op = "wait" /\ handshake = "byte")
  => (lastRet.res = "Ok" /\ handles[lastRet.h].already_ended)

\* After a successful start() the child does not live on for ever: it ends on
\* its own or by a SIGKILL.
DeadlineKills == (handshake = "byte" /\ wstatus = "none") ~> (wstatus # "none")

\* A wait() blocked in waitpid returns.
BlockedWaitReturns == (pc = "waitpid" /\ EverRunning) ~> (pc = "idle")

\* No call fails for want of the child (ECHILD, ESRCH) while the child has not
\* ended on its own.
NoErrorByDeadline ==
  (handshake = "byte" /\ wstatus # "exited")
  => lastRet.res \notin {"ECHILD", "ESRCH"}

\* C11: after a successful start() a child that does not end on its own is
\* killed once time_limit has passed, a blocked wait() then returns, and the
\* deadline makes no call of the supervisor fail.
C11_DeadlineEnforced ==
  /\ DeadlineKills
  /\ BlockedWaitReturns
  /\ []NoErrorByDeadline

\* C12: already_ended never goes back to false, and a handle becomes Ended
\* only when it has a child (it has been started), never from Unstarted.
C12_LifecycleInOrder ==
  [][\A h \in Handles :
       /\ handles[h].already_ended => handles'[h].already_ended
       /\ (~handles[h].already_ended /\ handles'[h].already_ended)
            => HasStarted(handles[h])]_vars

\* C13: between calls, a handle holds a PID exactly when a start() has
\* returned success.
C13_PidIffEverRunning ==
  pc = "idle" =>
    \A h \in Handles :
      handles[h].state = "live" => (HasStarted(handles[h]) <=> EverRunning)

\* C14: between calls, the cgroup exists exactly when the container has been
\* started (a start() has returned success) and cgroup_limits.delete has not
\* run. (Stated apart from a start() that failed in the cgroup apply, so
\* that it does not rest on what a failed apply leaves behind.)
C14_CGroupIffStartedNotDeleted ==
  (pc = "idle" /\ lastRet.startAt # "cgroup")
  => (cgroup <=> (EverRunning /\ ~deleted))

\* The reading of C14 in which started is has_started().
CGroupIffHasStartedNotDeleted ==
  pc = "idle" =>
    (cgroup <=> ((\E h \in Handles : HasStarted(handles[h])) /\ ~deleted))

\* The probe of the watcher leaves the child as it is.
WatcherProbeChangesNothing ==
  [][(wpc = "probe" /\ wpc' # "probe") => proc' = proc]_vars

\* C15: the watcher sends its SIGKILL only to the container's child while
\* that child is not reaped, whatever the child and the main thread do
\* between its probe and its kill.
C15_WatcherOnlyKillsItsChild ==
  [][(wpc = "kill" /\ wpc' = "done") => proc \in {"alive", "zombie"}]_vars

\* Step (k, i) is in the child's log.
Ran(k, i) == Pos(k, i) > 0

\* C16: the child runs the loading phases in the order of config.fs, then the
\* pivot, then the loaded phases in the order of config.fs.
C16_MountOrder ==
  /\ \A i, j \in 1..cfg.nfs :
       (i < j /\ Ran("loading", j))
         => (Ran("loading", i) /\ Pos("loading", i) < Pos("loading", j))
  /\ \A i, j \in 1..cfg.nfs :
       (i < j /\ Ran("loaded", j))
         => (Ran("loaded", i) /\ Pos("loaded", i) < Pos("loaded", j))
  /\ \A i \in 1..cfg.nfs :
       Ran("pivot", 0)
         => (Ran("loading", i) /\ Pos("loading", i) < Pos("pivot", 0))
  /\ \A i \in 1..cfg.nfs :
       Ran("loaded", i)
         => (Ran("pivot", 0) /\ Pos("pivot", 0) < Pos("loaded", i))

\* C16 witness: the child has run both phases of two mount steps.
C16_Witness ==
  /\ cfg.nfs > 1
  /\ Ran("loading", 1)
  /\ Ran("loaded", cfg.nfs)

\* The places where a start() that has cloned its child can end.
AfterClone == {"close_rr", "close_rw", "idmap", "cgroup", "close_gate",
               "entry", "none"}

\* C17: every start() that clones a child creates one watcher thread, and a
\* watcher is created only when the read of the status byte has returned the
\* byte.
C17_OneWatcherAfterStatus ==
  [][/\ (Returns("start") /\ lastRet'.at \in AfterClone)
          => nwatchers' = nwatchers + 1
     /\ (nwatchers' # nwatchers) => st.nread = 1]_vars

\* C18: when a container whose start() failed in the ID mapping or in the
\* cgroup apply has been dropped, the child is reaped and neither the cgroup
\* nor the workspace directory exists.
C18_DropAfterFailedSetupCleansUp ==
  (lastRet.op = "drop" /\ lastRet.startAt \in {"idmap", "cgroup"})
  => (proc = "reaped" /\ ~cgroup /\ ~workdir)

\* C18 witness: such a container has been dropped; its delete() ran the cgroup
\* delete and then failed to remove the workspace directory that was never
\* made.
C18_Witness ==
  /\ lastRet.op = "drop"
  /\ lastRet.startAt = "cgroup"
  /\ lastRet.at = "remove_dir_all"
  /\ deleted
  /\ proc = "reaped"

\* C19: when a start() that got past its state check has returned, none of
\* the four pipe ends it made is open in the parent.
C19_StartClosesItsPipes ==
  (lastRet.op = "start" /\ lastRet.at # "check") => parentFds = {}

\* This step is a step of the main thread in a call on handle h.
MainStepOn(h) ==
  /\ pc' # pc \/ lastRet' # lastRet
  /\ IF pc # "idle" THEN cur = h
     ELSE IF pc' # "idle" THEN cur' = h
     ELSE lastRet'.h = h

\* C20: a call on one handle neither kills nor reaps the child, nor removes
\* the cgroup or the workspace directory, while another handle of the same
\* container is started and not ended. (Stated for a container whose start()
\* succeeded on the child's zero byte, so that it does not rest on what a
\* failed start() leaves behind.)
C20_OneHandleControlsChild ==
  [][\A h, g \in Handles :
       (/\ h # g
        /\ handshake = "byte"
        /\ MainStepOn(h)
        /\ handles[g].state = "live"
        /\ HasStarted(handles[g])
        /\ ~HasEnded(handles[g]))
       => /\ proc' = proc
          /\ cgroup => cgroup'
          /\ workdir => workdir']_vars

====
